---------------------------- MODULE Spec2Model ----------------------------
(***************************************************************************)
(* mobkp-instances: parameter validation, batch expansion, the request     *)
(* pipeline of main(), and the locked append to the shared stats file.     *)
(*                                                                         *)
(* Six specifications share this module:                                   *)
(*   SpecStats  NProcs processes inside save_stats_to_file on one file     *)
(*   SpecMain   one run of main(), from the parsed command line to exit    *)
(*   SpecLib    a library caller constructing Parameters objects           *)
(*   SpecGen    the data of the requests of one process: random_mobkp,     *)
(*              correlated_mobkp, solve_mobkp, write_solution             *)
(*   SpecPaths  the output paths of two requests of one batch run          *)
(*   SpecRange  parse_range, its loop one statement at a time              *)
(*                                                                         *)
(* Real numbers (correlation, weight factor) are exact rationals k/CorrDen;*)
(* on this grid the double comparisons of the source agree with the exact  *)
(* ones.                                                                   *)
(***************************************************************************)
EXTENDS Integers, Sequences, FiniteSets, TLC

VARIABLES
  \* ---- SpecStats: save_stats_to_file run by concurrent processes
  pc,          \* pc[p]: position of process p inside save_stats_to_file
  lockHolders, \* the processes holding the flock(2) lock on the stats file
  buffer,      \* buffer[p]: bytes held by p's std::ofstream, not yet written
  file,        \* content of times<m>D.csv: a sequence of bytes <<p, i>>
  outcome,     \* outcome[p]: how p's call ended ("none" while running)
  \* ---- SpecMain: one run of main()
  args,        \* the parsed command line
  mpc,         \* position of main
  n_values, seed_values, corr_values,   \* the expanded batch axes
  total, count,                         \* announced total, requests started
  pos,         \* loop position <<i, j, k>> into n_values, correlations, seed_values
  params,      \* the Parameters object of the current request, or NoParams
  issued,      \* the requests handed to random()/correlated(), in order
  dirs,        \* directories created
  files,       \* instance files: path -> "generated" | "complete"
  stats,       \* rows appended to the stats file by this run
  genCalls, solverCalls,                \* external generator / solver runs
  faults,      \* environment faults met so far: <<[at |-> request no, what |-> ...]>>
  error,       \* what the catch block of main reported, "none" if nothing
  exitCode,    \* process exit code, -1 while running
  \* ---- SpecLib: Parameters constructed by a library caller
  libResult,   \* "idle", or the outcome of the last construction
  \* ---- SpecGen: the data of the requests served by one process
  gpc,         \* position inside random_mobkp / correlated_mobkp
  req,         \* the validated request at hand
  served,      \* requests started by this process
  randState,   \* state of the C library generator behind std::rand
  points,      \* the flat vector built for solve_mobkp
  problem,     \* what solve_mobkp received: [n, m, points], or NoProblem
  solutions,   \* the solution set, in the iteration order of the container
  target,      \* content of the file at folder_path + outfile: lines of tokens
  rows,        \* rows this process appended to the stats file
  calls,       \* for the request at hand: exit status of the generator (-1: not
               \* run), the script it was run from, what the parser met, runs
               \* of the solver
  produced,    \* <<request, points>> of every random instance generated
  gexit,       \* exit code of the process, -1 while running
  \* ---- SpecPaths: two requests of one batch run
  batch,       \* the two requests, in the order the loops of main reach them
  paths,       \* folder_path + outfile of the Parameters objects built so far
  \* ---- SpecRange: one call of parse_range
  rpc,         \* position inside parse_range
  range_str,   \* the argument, by its parts
  loop_v,      \* the loop variable v
  parsed       \* the vector values

statsVars == <<pc, lockHolders, buffer, file, outcome>>
mainVars  == <<args, mpc, n_values, seed_values, corr_values, total, count, pos,
               params, issued, dirs, files, stats, genCalls, solverCalls,
               faults, error, exitCode>>
libVars   == <<libResult>>
genVars   == <<gpc, req, served, randState, points, problem, solutions, target, rows,
               calls, produced, gexit>>
pathVars  == <<batch, paths>>
rangeVars == <<rpc, range_str, loop_v, parsed>>
vars      == <<statsVars, mainVars, libVars, genVars, pathVars, rangeVars>>

---------------------------------------------------------------------------
(* Bounds of the model *)

CorrDen == 4   \* correlations are k/CorrDen
MaxM == 3      \* objectives m range over 1..MaxM
MaxN == 2      \* item counts n range over 1..MaxN
MaxSeed == 1   \* seeds given on the command line range over 0..MaxSeed
MaxFaults == 1 \* environment faults injected into one run of main
NProcs == 3    \* concurrent appenders
RowLen == 2    \* bytes of one stats row
MAX == 4       \* random_mobkp draws weights and values in 1..MAX-1
RandMod == 16  \* states of the generator behind std::rand
MaxRequests == 2 \* requests one process serves in SpecGen
MaxFine == 6     \* correlations of SpecPaths: 0.1 + d/FineDen for d in 0..MaxFine
IntMax == 5      \* the largest int32_t of SpecRange (the type keeps its shape:
                 \* IntMin..IntMax with IntMin = -IntMax - 1)
MaxStep == 2     \* steps of a range string range over -MaxStep..MaxStep

---------------------------------------------------------------------------
(* Parameter validation *)

Random == 0
NegativeCorrelated == 1
PositiveCorrelated == 2

\* c < -1.0 / (m - 1) in IEEE arithmetic; 1.0 / 0 is +infinity
BelowNegBound(m, c) ==
  IF m = 1 THEN FALSE
  ELSE IF m > 1 THEN c * (m - 1) < -CorrDen
  ELSE c * (m - 1) > -CorrDen

\* c > 1.0 / (m - 1) in IEEE arithmetic
AboveBound(m, c) ==
  IF m = 1 THEN FALSE
  ELSE IF m > 1 THEN c * (m - 1) > CorrDen
  ELSE c * (m - 1) < CorrDen

\* validate_correlation(type, m, correlation): TRUE when it does not throw
validate_correlation(type, m, c) ==
  IF type = NegativeCorrelated
  THEN ~(c >= 0 \/ BelowNegBound(m, c))
  ELSE IF type = PositiveCorrelated
  THEN ~(c <= 0 \/ AboveBound(m, c))
  ELSE TRUE

\* Parameters::validate: "ok", or the parameter named by the exception thrown
validate(p) ==
  IF p.m <= 1 THEN "m"
  ELSE IF p.n <= 0 THEN "n"
  ELSE IF p.seed < 0 THEN "seed"
  ELSE IF p.weight_factor < 0 \/ p.weight_factor > CorrDen THEN "weight_factor"
  ELSE IF p.timeout <= 0 THEN "timeout"
  ELSE IF p.type = NegativeCorrelated /\ (p.correlation >= 0 \/ BelowNegBound(p.m, p.correlation))
  THEN "correlation"
  ELSE IF p.type = PositiveCorrelated /\ (p.correlation <= 0 \/ p.correlation > CorrDen)
  THEN "correlation"
  ELSE "ok"

\* The correlation invariant of an InstanceRequest: (-1/(m-1), 0) for
\* NegativeCorrelated, (0, 1/(m-1)] for PositiveCorrelated
CorrelationInvariant(p) ==
  /\ p.type = NegativeCorrelated =>
       (p.correlation < 0 /\ p.correlation * (p.m - 1) > -CorrDen)
  /\ p.type = PositiveCorrelated =>
       (p.correlation > 0 /\ p.correlation * (p.m - 1) <= CorrDen)

NoParams == [type |-> -1]

---------------------------------------------------------------------------
(* save_stats_to_file, run by NProcs processes on the same stats file *)

Procs == 1..NProcs

Finished == {"returned", "thrown"}

\* The row fmt::print formats for process p: RowLen bytes, byte i tagged <<p, i>>
Row(p) == [i \in 1..RowLen |-> <<p, i>>]

\* Rows already in the file before the run (byte owner 0)
PriorContents == {<<>>, Row(0)}

\* std::ofstream(file_path) without std::ios::app truncates the file
OpenTruncate(f) == <<>>

\* std::ofstream file_stream(file_path, std::ios::app): the content is kept
OpenAppend(f) == f

\* a write at offset 0 of a descriptor opened without O_APPEND
WriteAtStart(f, buf) == buf \o SubSeq(f, Len(buf) + 1, Len(f))

\* write(2) on a descriptor opened with O_APPEND: the whole buffer goes to the
\* end of the file in one step
StreamFlush(f, buf) == f \o buf

\* flock(fd_, LOCK_EX) is granted when no other open file description holds
\* a lock on the file
Grantable(holders, p) == holders \ {p} = {}

\* a destructor that does not unlock
UnlockMissing(holders, p) == holders

\* FileLock::~FileLock: flock(fd_, LOCK_UN)
Unlock(holders, p) == holders \ {p}

\* a lock that outlives the process that took it
HeldAfterExit(holders, p) == holders

\* flock(2) locks belong to the open file description: when the process ends,
\* its descriptors are closed and the lock is gone
ReleasedAtExit(holders, p) == holders \ {p}

\* a step of a process in save_stats_to_file touches nothing else
StatsOnly == UNCHANGED <<args, mpc, n_values, seed_values, corr_values, total, count,
                         pos, params, issued, dirs, files, stats, genCalls,
                         solverCalls, faults, error, exitCode, libResult, genVars,
                         pathVars, rangeVars>>

InitStats ==
  /\ pc = [p \in Procs |-> "open"]
  /\ lockHolders = {}
  /\ buffer = [p \in Procs |-> <<>>]
  /\ file \in PriorContents
  /\ outcome = [p \in Procs |-> "none"]

\* line 54: the stream is opened
OpenStream(p) ==
  /\ pc[p] = "open"
  /\ file' = OpenAppend(file)
  /\ pc' = [pc EXCEPT ![p] = "fopen"]
  /\ UNCHANGED <<lockHolders, buffer, outcome>>
  /\ StatsOnly

\* lines 55-58: the stream is not open: message, return
OpenStreamFails(p) ==
  /\ pc[p] = "open"
  /\ pc' = [pc EXCEPT ![p] = "returned"]
  /\ outcome' = [outcome EXCEPT ![p] = "open_failed"]
  /\ UNCHANGED <<lockHolders, buffer, file>>
  /\ StatsOnly

\* lines 60-68: fopen(file_path, "a") and fileno
Fopen(p) ==
  /\ pc[p] = "fopen"
  /\ pc' = [pc EXCEPT ![p] = "lock"]
  /\ UNCHANGED <<lockHolders, buffer, file, outcome>>
  /\ StatsOnly

\* lines 61-63: fopen fails, runtime_error; file_stream is destroyed empty
FopenFails(p) ==
  /\ pc[p] = "fopen"
  /\ pc' = [pc EXCEPT ![p] = "thrown"]
  /\ outcome' = [outcome EXCEPT ![p] = "fopen_failed"]
  /\ UNCHANGED <<lockHolders, buffer, file>>
  /\ StatsOnly

\* line 71, FileLock::FileLock: flock(fd_, LOCK_EX) returns once the lock is free
Lock(p) ==
  /\ pc[p] = "lock"
  /\ Grantable(lockHolders, p)
  /\ lockHolders' = lockHolders \cup {p}
  /\ pc' = [pc EXCEPT ![p] = "print"]
  /\ UNCHANGED <<buffer, file, outcome>>
  /\ StatsOnly

\* FileLock::FileLock: flock returns -1, runtime_error
LockFails(p) ==
  /\ pc[p] = "lock"
  /\ pc' = [pc EXCEPT ![p] = "thrown"]
  /\ outcome' = [outcome EXCEPT ![p] = "lock_failed"]
  /\ UNCHANGED <<lockHolders, buffer, file>>
  /\ StatsOnly

\* lines 72-73: fmt::print puts the row into the stream's buffer
PrintRow(p) ==
  /\ pc[p] = "print"
  /\ buffer' = [buffer EXCEPT ![p] = buffer[p] \o Row(p)]
  /\ pc' = [pc EXCEPT ![p] = "unlock"]
  /\ UNCHANGED <<lockHolders, file, outcome>>
  /\ StatsOnly

\* lines 72-73: fmt::print throws before anything reaches the stream
PrintThrows(p) ==
  /\ pc[p] = "print"
  /\ pc' = [pc EXCEPT ![p] = "unlock_unwinding"]
  /\ UNCHANGED <<lockHolders, buffer, file, outcome>>
  /\ StatsOnly

\* line 74: the lock scope is left (normally or unwinding), ~FileLock runs
LeaveLockScope(p) ==
  /\ pc[p] \in {"unlock", "unlock_unwinding"}
  /\ lockHolders' = Unlock(lockHolders, p)
  /\ pc' = [pc EXCEPT ![p] = IF pc[p] = "unlock" THEN "close" ELSE "close_unwinding"]
  /\ UNCHANGED <<buffer, file, outcome>>
  /\ StatsOnly

\* line 75: the function is left, file_stream is destroyed: its buffer is
\* flushed to the file and the stream closed
CloseStream(p) ==
  /\ pc[p] \in {"close", "close_unwinding"}
  /\ file' = StreamFlush(file, buffer[p])
  /\ buffer' = [buffer EXCEPT ![p] = <<>>]
  /\ pc' = [pc EXCEPT ![p] = IF pc[p] = "close" THEN "returned" ELSE "thrown"]
  /\ outcome' = [outcome EXCEPT ![p] = IF pc[p] = "close" THEN "appended" ELSE "print_failed"]
  /\ UNCHANGED lockHolders
  /\ StatsOnly

\* the process is killed inside the lock scope
Crash(p) ==
  /\ p \in lockHolders
  /\ pc[p] \in {"print", "unlock", "unlock_unwinding"}
  /\ lockHolders' = ReleasedAtExit(lockHolders, p)
  /\ buffer' = [buffer EXCEPT ![p] = <<>>]
  /\ pc' = [pc EXCEPT ![p] = "crashed"]
  /\ outcome' = [outcome EXCEPT ![p] = "crashed"]
  /\ UNCHANGED file
  /\ StatsOnly

\* the steps a running process takes when nothing fails
Progress(p) ==
  \/ OpenStream(p)
  \/ Fopen(p)
  \/ Lock(p)
  \/ PrintRow(p)
  \/ LeaveLockScope(p)
  \/ CloseStream(p)

---------------------------------------------------------------------------
(* Each specification leaves the variables of the others at rest *)

NoArgs == [type |-> -1]

StatsIdle ==
  /\ pc = <<>>
  /\ lockHolders = {}
  /\ buffer = <<>>
  /\ file = <<>>
  /\ outcome = <<>>

MainIdle ==
  /\ args = NoArgs
  /\ mpc = "idle"
  /\ n_values = <<>>
  /\ seed_values = <<>>
  /\ corr_values = <<>>
  /\ total = 0
  /\ count = 0
  /\ pos = <<0, 0, 0>>
  /\ params = NoParams
  /\ issued = <<>>
  /\ dirs = {}
  /\ files = <<>>
  /\ stats = <<>>
  /\ genCalls = 0
  /\ solverCalls = 0
  /\ faults = <<>>
  /\ error = "none"
  /\ exitCode = -1

LibIdle == libResult = "idle"

NoRequest == [type |-> -1]
NoProblem == [n |-> -1]
NoCalls == [generator |-> -1, script |-> "", parser |-> "none", solver |-> 0]
NoFile == [exists |-> FALSE, lines |-> <<>>, junk |-> {}]

GenIdle ==
  /\ gpc = "idle"
  /\ req = NoRequest
  /\ served = 0
  /\ randState = 0
  /\ points = <<>>
  /\ problem = NoProblem
  /\ solutions = <<>>
  /\ target = NoFile
  /\ rows = <<>>
  /\ calls = NoCalls
  /\ produced = {}
  /\ gexit = -1

PathIdle ==
  /\ batch = <<>>
  /\ paths = <<>>

NoRange == [form |-> "none"]

RangeIdle ==
  /\ rpc = "idle"
  /\ range_str = NoRange
  /\ loop_v = 0
  /\ parsed = <<>>

OthersIdle == PathIdle /\ RangeIdle

---------------------------------------------------------------------------
(* SpecStats *)

InitS == InitStats /\ MainIdle /\ LibIdle /\ GenIdle /\ OthersIdle

NextStats ==
  \E p \in Procs :
    \/ OpenStream(p)
    \/ OpenStreamFails(p)
    \/ Fopen(p)
    \/ FopenFails(p)
    \/ Lock(p)
    \/ LockFails(p)
    \/ PrintRow(p)
    \/ PrintThrows(p)
    \/ LeaveLockScope(p)
    \/ CloseStream(p)
    \/ Crash(p)

\* A runnable process is scheduled; flock(LOCK_EX) returns when the lock can
\* be granted. The environment is not obliged to produce faults.
SpecStats ==
  /\ InitS
  /\ [][NextStats]_vars
  /\ \A p \in Procs : WF_vars(Progress(p))

Appended == {p \in Procs : outcome[p] = "appended"}

AllFinished == \A p \in Procs : pc[p] \in Finished

IsRowAt(f, k, p) ==
  /\ k + RowLen <= Len(f)
  /\ \A i \in 1..RowLen : f[k + i] = <<p, i>>

\* C1: once all concurrent callers of save_stats_to_file have finished, the
\* file holds, after what it held before, exactly one complete row for every
\* caller that appended (N rows when all N did) and nothing else: every
\* RowLen-byte slot is the whole row of one process, so no row holds bytes of
\* another.
C1_RowsComplete ==
  AllFinished =>
    \E prior \in PriorContents :
      /\ Len(file) = Len(prior) + RowLen * Cardinality(Appended)
      /\ SubSeq(file, 1, Len(prior)) = prior
      /\ \A p \in Appended :
           \E k \in 0..(Cardinality(Appended) - 1) :
             IsRowAt(file, Len(prior) + k * RowLen, p)

\* all N processes appended, and the row of process 1 is the last one
C1_Witness ==
  /\ AllFinished
  /\ Appended = Procs
  /\ IsRowAt(file, Len(file) - RowLen, 1)

\* C2: at most one process holds the lock, and every step that puts bytes
\* into the stats file is taken by a process that holds the lock.
C2_WriteUnderLock ==
  [][ /\ Cardinality(lockHolders') <= 1
      /\ file' # file => \E p \in Procs : p \in lockHolders /\ pc'[p] # pc[p] ]_vars

\* C3: a process that has left save_stats_to_file, by return or by exception,
\* does not hold the lock.
C3_ReleasedOnExit ==
  \A p \in Procs : pc[p] \in Finished => p \notin lockHolders

\* one process left by the exception of the write inside the lock scope,
\* another by normal return after appending
C3_Witness ==
  \E p, q \in Procs :
    /\ pc[p] = "thrown" /\ outcome[p] = "print_failed"
    /\ pc[q] = "returned" /\ outcome[q] = "appended"
    /\ lockHolders = {}

\* C4: under fair scheduling a process waiting for the lock does not wait
\* forever, also when a lock holder crashes: it gets the lock and completes
\* its append, unless its own flock call or write fails or it is killed.
C4_NoWaitForever ==
  \A p \in Procs :
    (pc[p] = "lock") ~>
      (outcome[p] \in {"appended", "lock_failed", "print_failed", "crashed"})

\* a process crashed inside the lock scope and the others all appended
C4_Witness ==
  \E p \in Procs :
    /\ outcome[p] = "crashed"
    /\ Appended = Procs \ {p}
    /\ \A q \in Procs \ {p} : pc[q] = "returned"

\* C21: the stats file is append-only: every step of any process leaves the
\* content the file had before as a prefix of the content after; no byte once
\* written is changed, removed or truncated.
C21_AppendOnly ==
  [][ /\ Len(file') >= Len(file)
      /\ SubSeq(file', 1, Len(file)) = file ]_vars

\* the file held a row before, and two processes have appended theirs behind it
C21_Witness ==
  \E p, q \in Procs :
    /\ p # q
    /\ file = Row(0) \o Row(p) \o Row(q)

---------------------------------------------------------------------------
(* main(): command line, batch expansion, the request pipeline *)

\* the loop of parse_range: for (v = start; v <= end; v += step) push_back(v)
RECURSIVE RangeLoop(_, _, _, _)
RangeLoop(v, end, step, values) ==
  IF v <= end THEN RangeLoop(v + step, end, step, Append(values, v)) ELSE values

\* parse_range on "start-end:step", given as <<start, end, step>>
parse_range(r) == RangeLoop(r[1], r[2], r[3], <<>>)

\* "{:.4f}" of the number num/den, in units of 1/10000
FormatFixed4(num, den) ==
  LET a == IF num < 0 THEN -num ELSE num
      r == (2 * a * 10000 + den) \div (2 * den)
  IN  IF num < 0 THEN -r ELSE r

\* "{:.4f}" of the correlation k/CorrDen, in units of 1/10000
Format4(c) == FormatFixed4(c, CorrDen)

\* the folder setup_paths chooses when none was given
DefaultFolder(type, m) == <<"../instances/", type, m>>

\* the file name setup_paths chooses when none was given: "n_seed.in" for
\* Random, "n_seed_<correlation to four decimals>.in" otherwise
DefaultOutfile(type, n, seed, corr4) ==
  <<n, seed, IF type = Random THEN <<>> ELSE <<corr4>>>>

\* Parameters::setup_paths: the object with folder_path and outfile filled in
setup_paths(r) ==
  [r EXCEPT
     !.folder_path = IF r.folder_path = "" THEN DefaultFolder(r.type, r.m)
                     ELSE <<r.folder_path>>,
     !.outfile = IF r.outfile = ""
                 THEN DefaultOutfile(r.type, r.n, r.seed, Format4(r.correlation))
                 ELSE <<r.outfile>>]

\* a constructor that sets up the paths before it validates
SetupPathsFirst(ds, r) == ds \cup {setup_paths(r).folder_path}

\* Parameters::Parameters: validate(), then setup_paths(), whose
\* create_directories(folder_path) runs only when validate() did not throw
DirsAfterConstructor(ds, r) ==
  IF validate(r) = "ok" THEN ds \cup {setup_paths(r).folder_path} ELSE ds

\* the file an instance is written to: folder_path + outfile
FilePath(p) == <<p.folder_path, p.outfile>>

\* the size of the solution set the solver returns for a request
SolutionCount(p) == 1 + ((p.n + p.seed) % 2)

\* the row save_stats_to_file appends: m, n, seed, rho, n_solutions
\* (random_mobkp passes rho = 0)
StatsRow(p) ==
  [m |-> p.m, n |-> p.n, seed |-> p.seed,
   rho |-> IF p.type = Random THEN 0 ELSE p.correlation,
   n_solutions |-> SolutionCount(p)]

\* values an int32_t that was never assigned may hold
Uninit == {-1, 0, 1}

\* default_val(0.5) of --weight-factor, default_val(86400.0 * 30) of --timeout
DefaultWeightFactor == CorrDen \div 2
DefaultTimeout == 86400 * 30

NRanges == {<<1, MaxN, 1>>, <<0, 1, 1>>}
SeedRanges == {<<1, 2, 1>>, <<0, 1, 1>>}
CorrLists == {<<-1>>, <<-2, -1>>, <<-1, 0>>, <<-1, -1>>, <<1>>, <<1, 0>>}

NAxis ==
  {[n |-> v, n_given |-> TRUE, n_range |-> <<>>] : v \in 1..MaxN}
    \cup {[n |-> v, n_given |-> FALSE, n_range |-> <<>>] : v \in Uninit}
    \cup {[n |-> 0, n_given |-> FALSE, n_range |-> r] : r \in NRanges}

SeedAxis ==
  {[seed |-> v, seed_range |-> <<>>] : v \in 0..MaxSeed}
    \cup {[seed |-> 1, seed_range |-> r] : r \in SeedRanges}

CorrAxis ==
  {[correlation |-> c, correlation_list |-> <<>>] : c \in -CorrDen..CorrDen}
    \cup {[correlation |-> 0, correlation_list |-> l] : l \in CorrLists}

\* the variables main() declares, after the options were read (lines 95-139)
CommandLines ==
  {[type |-> t, m |-> m, n |-> na.n, n_given |-> na.n_given, seed |-> sa.seed,
    correlation |-> ca.correlation, n_range |-> na.n_range,
    seed_range |-> sa.seed_range, correlation_list |-> ca.correlation_list,
    weight_factor |-> DefaultWeightFactor, timeout |-> DefaultTimeout,
    folder_path |-> "", outfile |-> "", r_script_path |-> ""] :
   t \in 0..2, m \in 1..MaxM, na \in NAxis, sa \in SeedAxis, ca \in CorrAxis}

\* the checks CLI11 runs on the options: Range(0, 2), PositiveNumber, Range(-1, 1)
CliAccepts(a) ==
  /\ a.type \in 0..2
  /\ a.m > 0
  /\ a.n_given => a.n > 0
  /\ a.seed > 0
  /\ a.correlation >= -CorrDen /\ a.correlation <= CorrDen
  /\ a.timeout > 0
  /\ a.weight_factor >= 0 /\ a.weight_factor <= CorrDen

\* line 142
batch_mode(a) == a.n_range # <<>> \/ a.seed_range # <<>> \/ a.correlation_list # <<>>

\* lines 146-148
ExpandN(a) == IF a.n_range = <<>> THEN <<a.n>> ELSE parse_range(a.n_range)
ExpandSeed(a) == IF a.seed_range = <<>> THEN <<a.seed>> ELSE parse_range(a.seed_range)
ExpandCorr(a) == IF a.correlation_list = <<>> THEN <<a.correlation>> ELSE a.correlation_list

\* a batch that validates nothing before the loop
NoUpfrontValidation(type, m, cv) == TRUE

\* lines 151-155: every value of the list passes validate_correlation
UpfrontValidation(type, m, cv) ==
  type = Random \/ \A i \in 1..Len(cv) : validate_correlation(type, m, cv[i])

\* a loop over corr_values for every type
LoopAllCorrelations(type, cv) == cv

\* line 168: the correlations the loop runs over
LoopCorrelations(type, cv) == IF type = Random THEN <<0>> ELSE cv

\* line 157
Total(type, nv, sv, cv) == Len(nv) * Len(sv) * (IF type = Random THEN 1 ELSE Len(cv))

\* the arguments of the Parameters constructor for the request at hand
\* (line 175 in batch mode, line 204 in single mode)
CurrentRequest ==
  IF batch_mode(args)
  THEN [type |-> args.type, n |-> n_values[pos[1]], m |-> args.m,
        seed |-> seed_values[pos[3]],
        correlation |-> LoopCorrelations(args.type, corr_values)[pos[2]],
        weight_factor |-> args.weight_factor, timeout |-> args.timeout,
        folder_path |-> args.folder_path, outfile |-> "",
        r_script_path |-> args.r_script_path]
  ELSE [type |-> args.type, n |-> args.n, m |-> args.m, seed |-> args.seed,
        correlation |-> args.correlation,
        weight_factor |-> args.weight_factor, timeout |-> args.timeout,
        folder_path |-> args.folder_path, outfile |-> args.outfile,
        r_script_path |-> args.r_script_path]

\* the number of the request at hand
RequestNo == IF batch_mode(args) THEN count ELSE 1

\* the loop position after pos, or <<0, 0, 0>> when the loops are over
NextPos ==
  IF pos[3] < Len(seed_values) THEN <<pos[1], pos[2], pos[3] + 1>>
  ELSE IF pos[2] < Len(LoopCorrelations(args.type, corr_values)) THEN <<pos[1], pos[2] + 1, 1>>
  ELSE IF pos[1] < Len(n_values) THEN <<pos[1] + 1, 1, 1>>
  ELSE <<0, 0, 0>>

\* a step of main() touches nothing of the other specifications
MainOnly == UNCHANGED <<pc, lockHolders, buffer, file, outcome, libResult, genVars,
                        pathVars, rangeVars>>

\* a catch block that returns 0
CaughtReturnsZero(what) ==
  /\ mpc' = "exit"
  /\ error' = what
  /\ exitCode' = 0

\* lines 220-223: the exception is caught, reported, and main returns 1
Caught(what) ==
  /\ mpc' = "exit"
  /\ error' = what
  /\ exitCode' = 1

InitMain ==
  /\ args \in CommandLines
  /\ mpc = "parse"
  /\ n_values = <<>>
  /\ seed_values = <<>>
  /\ corr_values = <<>>
  /\ total = 0
  /\ count = 0
  /\ pos = <<0, 0, 0>>
  /\ params = NoParams
  /\ issued = <<>>
  /\ dirs = {}
  /\ files = <<>>
  /\ stats = <<>>
  /\ genCalls = 0
  /\ solverCalls = 0
  /\ faults = <<>>
  /\ error = "none"
  /\ exitCode = -1

\* line 139, CLI11_PARSE: an option fails its check, main returns the
\* library's exit code for a validation error
ParseRejects ==
  /\ mpc = "parse"
  /\ ~CliAccepts(args)
  /\ mpc' = "exit"
  /\ error' = "cli"
  /\ exitCode' = 105
  /\ UNCHANGED <<args, n_values, seed_values, corr_values, total, count, pos, params,
                 issued, dirs, files, stats, genCalls, solverCalls, faults>>
  /\ MainOnly

\* lines 139-144
ParseAccepts ==
  /\ mpc = "parse"
  /\ CliAccepts(args)
  /\ mpc' = IF batch_mode(args) THEN "expand" ELSE "single"
  /\ UNCHANGED <<args, n_values, seed_values, corr_values, total, count, pos, params,
                 issued, dirs, files, stats, genCalls, solverCalls, faults, error,
                 exitCode>>
  /\ MainOnly

\* lines 146-165: the axes are expanded, the correlations validated, the
\* total announced
Expand ==
  /\ mpc = "expand"
  /\ n_values' = ExpandN(args)
  /\ seed_values' = ExpandSeed(args)
  /\ corr_values' = ExpandCorr(args)
  /\ IF UpfrontValidation(args.type, args.m, ExpandCorr(args))
     THEN /\ total' = Total(args.type, ExpandN(args), ExpandSeed(args), ExpandCorr(args))
          /\ pos' = IF total' = 0 THEN <<0, 0, 0>> ELSE <<1, 1, 1>>
          /\ mpc' = IF total' = 0 THEN "complete" ELSE "construct"
          /\ UNCHANGED <<error, exitCode>>
     ELSE /\ Caught("correlation")
          /\ UNCHANGED <<total, pos>>
  /\ UNCHANGED <<args, count, params, issued, dirs, files, stats, genCalls,
                 solverCalls, faults>>
  /\ MainOnly

\* lines 195-202: single instance mode
Single ==
  /\ mpc = "single"
  /\ IF args.n = 0 THEN Caught("n_required")
     ELSE IF args.type # Random /\ ~validate_correlation(args.type, args.m, args.correlation)
     THEN Caught("correlation")
     ELSE mpc' = "construct" /\ UNCHANGED <<error, exitCode>>
  /\ UNCHANGED <<args, n_values, seed_values, corr_values, total, count, pos, params,
                 issued, dirs, files, stats, genCalls, solverCalls, faults>>
  /\ MainOnly

\* lines 170-176 (batch) and 204 (single): Parameters::Parameters runs
\* validate(), then setup_paths(), which creates the directories
Construct ==
  /\ mpc = "construct"
  /\ count' = IF batch_mode(args) THEN count + 1 ELSE count
  /\ IF validate(CurrentRequest) = "ok"
     THEN /\ params' = setup_paths(CurrentRequest)
          /\ mpc' = "generate"
          /\ UNCHANGED <<error, exitCode>>
     ELSE /\ Caught(validate(CurrentRequest))
          /\ UNCHANGED params
  /\ dirs' = DirsAfterConstructor(dirs, CurrentRequest)
  /\ UNCHANGED <<args, n_values, seed_values, corr_values, total, pos, issued, files,
                 stats, genCalls, solverCalls, faults>>
  /\ MainOnly

\* random(params): random_mobkp draws the instance and solves it (lines 152-174)
GenerateRandom ==
  /\ mpc = "generate"
  /\ params.type = Random
  /\ issued' = Append(issued, <<params.n, params.correlation, params.seed>>)
  /\ solverCalls' = solverCalls + 1
  /\ mpc' = "stats"
  /\ UNCHANGED <<args, n_values, seed_values, corr_values, total, count, pos, params,
                 dirs, files, stats, genCalls, faults, error, exitCode>>
  /\ MainOnly

\* correlated(params): correlated_mobkp runs the generator script, reads the
\* file it wrote and solves the instance (lines 194-232)
GenerateCorrelated ==
  /\ mpc = "generate"
  /\ params.type # Random
  /\ issued' = Append(issued, <<params.n, params.correlation, params.seed>>)
  /\ genCalls' = genCalls + 1
  /\ files' = (FilePath(params) :> "generated") @@ files
  /\ solverCalls' = solverCalls + 1
  /\ mpc' = "stats"
  /\ UNCHANGED <<args, n_values, seed_values, corr_values, total, count, pos, params,
                 dirs, stats, faults, error, exitCode>>
  /\ MainOnly

\* lines 199-202: the generator exits with a non-zero status, runtime_error
GeneratorFails ==
  /\ mpc = "generate"
  /\ params.type # Random
  /\ Len(faults) < MaxFaults
  /\ faults' = Append(faults, [at |-> RequestNo, what |-> "generator_failed"])
  /\ issued' = Append(issued, <<params.n, params.correlation, params.seed>>)
  /\ genCalls' = genCalls + 1
  /\ Caught("generator")
  /\ UNCHANGED <<args, n_values, seed_values, corr_values, total, count, pos, params,
                 dirs, files, stats, solverCalls>>
  /\ MainOnly

\* save_stats_to_file (lines 44-75) appends the row of the request
SaveStats ==
  /\ mpc = "stats"
  /\ stats' = Append(stats, StatsRow(params))
  /\ mpc' = "write"
  /\ UNCHANGED <<args, n_values, seed_values, corr_values, total, count, pos, params,
                 issued, dirs, files, genCalls, solverCalls, faults, error, exitCode>>
  /\ MainOnly

\* lines 55-58: the stats file cannot be opened: a message, and the call returns
StatsOpenFails ==
  /\ mpc = "stats"
  /\ Len(faults) < MaxFaults
  /\ faults' = Append(faults, [at |-> RequestNo, what |-> "stats_open_failed"])
  /\ mpc' = "write"
  /\ UNCHANGED <<args, n_values, seed_values, corr_values, total, count, pos, params,
                 issued, dirs, files, stats, genCalls, solverCalls, error, exitCode>>
  /\ MainOnly

\* a handler inside the loop that reports the failure and goes on
ReportedAndSkipped(what) ==
  /\ mpc' = "write"
  /\ error' = what
  /\ UNCHANGED exitCode

\* the exception leaves save_stats_to_file and random_mobkp / correlated_mobkp
\* (no handler at lines 176 and 234) and the loops of main (lines 167-189)
Propagates(what) == Caught(what)

\* line 71, FileLock::FileLock: flock fails, runtime_error
StatsLockFails ==
  /\ mpc = "stats"
  /\ Len(faults) < MaxFaults
  /\ faults' = Append(faults, [at |-> RequestNo, what |-> "lock_failed"])
  /\ Propagates("lock")
  /\ UNCHANGED <<args, n_values, seed_values, corr_values, total, count, pos, params,
                 issued, dirs, files, stats, genCalls, solverCalls>>
  /\ MainOnly

\* the request is over: the next one of the batch, or the end of the run
Advance ==
  /\ params' = NoParams
  /\ IF batch_mode(args) /\ NextPos # <<0, 0, 0>>
     THEN pos' = NextPos /\ mpc' = "construct"
     ELSE pos' = pos /\ mpc' = "complete"

\* write_solution (lines 85-104) truncates the file and writes instance and
\* solution set
WriteSolution ==
  /\ mpc = "write"
  /\ files' = (FilePath(params) :> "complete") @@ files
  /\ Advance
  /\ UNCHANGED <<args, n_values, seed_values, corr_values, total, count, issued, dirs,
                 stats, genCalls, solverCalls, faults, error, exitCode>>
  /\ MainOnly

\* line 93: the stream cannot be opened; nothing checks it, nothing is written
WriteOpenFails ==
  /\ mpc = "write"
  /\ Len(faults) < MaxFaults
  /\ faults' = Append(faults, [at |-> RequestNo, what |-> "write_open_failed"])
  /\ Advance
  /\ UNCHANGED <<args, n_values, seed_values, corr_values, total, count, issued, dirs,
                 files, stats, genCalls, solverCalls, error, exitCode>>
  /\ MainOnly

\* lines 191 and 219: return 0
Complete ==
  /\ mpc = "complete"
  /\ mpc' = "exit"
  /\ exitCode' = 0
  /\ UNCHANGED <<args, n_values, seed_values, corr_values, total, count, pos, params,
                 issued, dirs, files, stats, genCalls, solverCalls, faults, error>>
  /\ MainOnly

InitM == InitMain /\ StatsIdle /\ LibIdle /\ GenIdle /\ OthersIdle

NextMain ==
  \/ ParseRejects
  \/ ParseAccepts
  \/ Expand
  \/ Single
  \/ Construct
  \/ GenerateRandom
  \/ GenerateCorrelated
  \/ GeneratorFails
  \/ SaveStats
  \/ StatsOpenFails
  \/ StatsLockFails
  \/ WriteSolution
  \/ WriteOpenFails
  \/ Complete

SpecMain == InitM /\ [][NextMain]_vars

\* the faults of the given kind met so far
FaultsOf(what) == {i \in 1..Len(faults) : faults[i].what = what}

RunEnded == mpc = "exit"

\* nothing was generated or written
NoOutput ==
  /\ issued = <<>>
  /\ genCalls = 0
  /\ solverCalls = 0
  /\ dirs = {}
  /\ files = <<>>
  /\ stats = <<>>

\* C5 as stated: after a lock failure in a batch only that append is missing
\* and the batch ran to its end.
C5_BatchGoesOn ==
  (RunEnded /\ batch_mode(args) /\ FaultsOf("lock_failed") # {}) =>
    /\ Len(issued) = total
    /\ Len(stats) >= total - Len(faults)

\* C5 amended: a lock failure at request k of a batch is reported once and
\* ends the run with exit code 1: no request after k is started, and request
\* k gets neither its stats row nor its complete instance file.
C5_LockFailureAborts ==
  \A i \in FaultsOf("lock_failed") :
    batch_mode(args) =>
      /\ RunEnded /\ exitCode = 1 /\ error = "lock"
      /\ i = Len(faults)
      /\ count = faults[i].at /\ Len(issued) = faults[i].at
      /\ Len(stats) < faults[i].at
      /\ FilePath(params) \in DOMAIN files => files[FilePath(params)] = "generated"

\* the lock failed at the first request of a batch of several requests
C5_Witness ==
  /\ batch_mode(args) /\ RunEnded
  /\ FaultsOf("lock_failed") # {}
  /\ total > 1 /\ Len(issued) = 1 /\ stats = <<>>

\* the correlations the run checked with validate_correlation
CheckedCorrelations == IF batch_mode(args) THEN ExpandCorr(args) ELSE <<args.correlation>>

\* -1/(m-1) < c < 0
InOpenNegRange(m, c) == c < 0 /\ c * (m - 1) > -CorrDen

\* validate_correlation has just let the run pass / has just stopped it
PassedCorrelationCheck == mpc = "construct" /\ count = 0 /\ issued = <<>>
StoppedByCorrelationCheck == RunEnded /\ error = "correlation" /\ count = 0

\* C6: for NegativeCorrelated and m > 1 the run passes the correlation check
\* exactly when every checked value c has -1/(m-1) < c < 0.
C6_NegBoundExclusive ==
  (args.type = NegativeCorrelated /\ args.m > 1) =>
    /\ PassedCorrelationCheck =>
         \A i \in 1..Len(CheckedCorrelations) : InOpenNegRange(args.m, CheckedCorrelations[i])
    /\ StoppedByCorrelationCheck =>
         \E i \in 1..Len(CheckedCorrelations) : ~InOpenNegRange(args.m, CheckedCorrelations[i])

\* the rule of section 4.1 a request violates first, "ok" if none
FirstViolatedRule(r) ==
  IF r.m <= 1 THEN "m"
  ELSE IF r.n <= 0 THEN "n"
  ELSE IF r.seed < 0 THEN "seed"
  ELSE IF r.weight_factor < 0 \/ r.weight_factor > CorrDen THEN "weight_factor"
  ELSE IF r.timeout <= 0 THEN "timeout"
  ELSE IF ~CorrelationInvariant(r) THEN "correlation"
  ELSE "ok"

Rules == {"m", "n", "seed", "weight_factor", "timeout", "correlation"}

\* C8: a single-mode run that ends with the error of a validation rule
\* reports the first rule, in the order m, n, seed, weightFactor, timeout,
\* correlation, that the request violates.
C8_FirstViolatedReported ==
  (RunEnded /\ ~batch_mode(args) /\ error \in Rules) =>
    error = FirstViolatedRule(CurrentRequest)

Throwing == {"generator_failed", "lock_failed"}

\* the Parameters object of the j-th request a batch handed to the generators
IssuedRequest(j) ==
  setup_paths([type |-> args.type, n |-> issued[j][1], m |-> args.m,
               seed |-> issued[j][3], correlation |-> issued[j][2],
               weight_factor |-> args.weight_factor, timeout |-> args.timeout,
               folder_path |-> args.folder_path, outfile |-> "",
               r_script_path |-> args.r_script_path])

\* request j met the silent fault `what`
SilentFaultAt(j, what) ==
  \E i \in 1..Len(faults) : faults[i].at = j /\ faults[i].what = what

\* a batch run met a throwing fault at request k
AbortedAt(k) ==
  /\ batch_mode(args)
  /\ \E i \in 1..Len(faults) : faults[i].at = k /\ faults[i].what \in Throwing

\* no request after k was started, and the process ended with exit code 1
StoppedAt(k) ==
  /\ RunEnded /\ exitCode = 1
  /\ count = k /\ Len(issued) = k

\* the stats rows of the requests before k are in the stats file
EarlierRowsKept(k) ==
  /\ Len(stats) = (k - 1) - Cardinality({j \in 1..(k - 1) : SilentFaultAt(j, "stats_open_failed")})
  /\ \A j \in 1..(k - 1) :
       ~SilentFaultAt(j, "stats_open_failed") =>
         \E r \in 1..Len(stats) : stats[r] = StatsRow(IssuedRequest(j))

\* C11 as stated: after a runtime failure at request k of a batch no later
\* request was started, the exit code is 1, and the stats row and the complete
\* instance file of every request before k are still there.
C11_EarlierOutputStays ==
  \A k \in 1..Len(issued) :
    AbortedAt(k) =>
      /\ StoppedAt(k)
      /\ EarlierRowsKept(k)
      /\ \A j \in 1..(k - 1) :
           ~SilentFaultAt(j, "write_open_failed") =>
             /\ FilePath(IssuedRequest(j)) \in DOMAIN files
             /\ files[FilePath(IssuedRequest(j))] = "complete"

\* C11 amended: as above, but the complete instance file of a request before
\* k is still there only when no later request up to k used the same path (a
\* repeated triple): the generator run of a later request overwrites it.
C11_EarlierOutputStaysUnlessSamePath ==
  \A k \in 1..Len(issued) :
    AbortedAt(k) =>
      /\ StoppedAt(k)
      /\ EarlierRowsKept(k)
      /\ \A j \in 1..(k - 1) :
           ( /\ ~SilentFaultAt(j, "write_open_failed")
             /\ \A l \in (j + 1)..k : FilePath(IssuedRequest(l)) # FilePath(IssuedRequest(j)) ) =>
             /\ FilePath(IssuedRequest(j)) \in DOMAIN files
             /\ files[FilePath(IssuedRequest(j))] = "complete"

\* the generator failed at the third request of a longer batch whose first
\* two requests left their rows and files
C11_Witness ==
  /\ AbortedAt(3) /\ StoppedAt(3)
  /\ total > 3
  /\ Len(stats) = 2
  /\ \A j \in 1..2 : files[FilePath(IssuedRequest(j))] = "complete"
  /\ FilePath(IssuedRequest(3)) \notin DOMAIN files

\* every request handed to the generators has its stats row and its complete
\* instance file
AllRequestsDone ==
  /\ Len(stats) = Len(issued)
  /\ \A j \in 1..Len(issued) :
       /\ FilePath(IssuedRequest(j)) \in DOMAIN files
       /\ files[FilePath(IssuedRequest(j))] = "complete"
       /\ \E r \in 1..Len(stats) : stats[r] = StatsRow(IssuedRequest(j))

\* C19: a run that exits with code 0 appended the stats row and wrote the
\* instance file of every request, and a run in which main's own validation
\* failed or a runtime failure happened (stats file not opened, instance file
\* not created, lock not taken, generator failed) exits with code 1.
C19_ExitCodeTellsSuccess ==
  RunEnded =>
    /\ exitCode = 0 => AllRequestsDone
    /\ (error \notin {"none", "cli"} \/ faults # <<>>) => exitCode = 1

\* the errors of a request that fails validation
ValidationErrors == Rules \cup {"n_required", "cli"}

\* C20: a step of main that reports a validation failure creates no
\* directory, writes or truncates no instance file, appends no stats row and
\* runs neither the generator nor the solver.
C20_ValidationFailureNoEffect ==
  [][ (error = "none" /\ error' \in ValidationErrors) =>
        UNCHANGED <<dirs, files, stats, genCalls, solverCalls, issued>> ]_vars

\* a single-mode request was rejected by Parameters::validate for its m, and
\* nothing exists
C20_Witness ==
  /\ RunEnded /\ ~batch_mode(args)
  /\ error = "m" /\ validate(CurrentRequest) = "m"
  /\ NoOutput

---------------------------------------------------------------------------
(* SpecLib: a library caller constructs a Parameters object *)

\* the arguments a caller may pass to Parameters::Parameters
LibRequests ==
  {[type |-> t, n |-> n, m |-> m, seed |-> s, correlation |-> c,
    weight_factor |-> w, timeout |-> to,
    folder_path |-> "", outfile |-> "", r_script_path |-> ""] :
   t \in 0..2, n \in 0..MaxN, m \in 0..MaxM, s \in -1..MaxSeed,
   c \in (-CorrDen - 1)..(CorrDen + 1),
   w \in {-1, 0, CorrDen, CorrDen + 1}, to \in {0, 1}}

LibOnly == UNCHANGED <<pc, lockHolders, buffer, file, outcome, mpc, n_values,
                       seed_values, corr_values, total, count, pos, issued, files,
                       stats, genCalls, solverCalls, faults, error, exitCode, genVars,
                       pathVars, rangeVars>>

InitLib ==
  /\ args \in LibRequests
  /\ mpc = "idle"
  /\ n_values = <<>>
  /\ seed_values = <<>>
  /\ corr_values = <<>>
  /\ total = 0
  /\ count = 0
  /\ pos = <<0, 0, 0>>
  /\ params = NoParams
  /\ issued = <<>>
  /\ dirs = {}
  /\ files = <<>>
  /\ stats = <<>>
  /\ genCalls = 0
  /\ solverCalls = 0
  /\ faults = <<>>
  /\ error = "none"
  /\ exitCode = -1
  /\ libResult = "idle"

\* Parameters::Parameters: validate() passes, setup_paths() runs
LibConstructs ==
  /\ libResult = "idle"
  /\ validate(args) = "ok"
  /\ libResult' = "ok"
  /\ params' = setup_paths(args)
  /\ dirs' = DirsAfterConstructor(dirs, args)
  /\ UNCHANGED args
  /\ LibOnly

\* Parameters::Parameters: validate() throws, no object exists
LibConstructorThrows ==
  /\ libResult = "idle"
  /\ validate(args) # "ok"
  /\ libResult' = validate(args)
  /\ dirs' = DirsAfterConstructor(dirs, args)
  /\ UNCHANGED <<args, params>>
  /\ LibOnly

InitL == InitLib /\ StatsIdle /\ GenIdle /\ OthersIdle

NextLib ==
  \/ LibConstructs
  \/ LibConstructorThrows

SpecLib == InitL /\ [][NextLib]_vars

\* C7: every Parameters object that was constructed satisfies the correlation
\* invariant of its type.
C7_ConstructedInvariant ==
  libResult = "ok" => CorrelationInvariant(params)

---------------------------------------------------------------------------
(* SpecGen: the data of the requests served by one process *)

\* std::rand: one step of the generator of the C library (a linear
\* congruential generator), on a state space of RandMod values
rand(s) == (5 * s + 3) % RandMod

\* no re-seeding at the start of a request
srand_missing(s, seed) == s

\* std::srand(seed): the state is set from the seed alone
srand(s, seed) == seed % RandMod

\* the states of k successive calls of std::rand from state s
RECURSIVE RandStates(_, _)
RandStates(s, k) == IF k = 0 THEN <<>> ELSE <<rand(s)>> \o RandStates(rand(s), k - 1)

\* a draw without the shift by one
DrawFromZero(s) == s % MAX

\* (std::rand() % (MAX - 1)) + 1
Draw(s) == (s % (MAX - 1)) + 1

\* lines 154-165: item i draws its weight first and then its m values; the
\* values go to positions i*(m+1)+j, the weight to position i*(m+1)+m
ItemBlock(states, n, m) ==
  [idx \in 1..(n * (m + 1)) |->
     LET b   == (idx - 1) \div (m + 1)
         off == (idx - 1) % (m + 1)
         d   == IF off = m THEN 1 ELSE off + 2
     IN  Draw(states[b * (m + 1) + d])]

RECURSIVE SumSeq(_)
SumSeq(q) == IF q = <<>> THEN 0 ELSE Head(q) + SumSeq(Tail(q))

\* total_weight of lines 155-164
TotalWeight(block, n, m) == SumSeq([i \in 1..n |-> block[i * (m + 1)]])

\* truncation in place of rounding
truncate(tw, wf) == (tw * wf) \div CorrDen

\* std::round(total_weight * weight_factor) for weight_factor = wf/CorrDen:
\* the nearest integer, halves away from zero
round(tw, wf) == (2 * tw * wf + CorrDen) \div (2 * CorrDen)

\* lines 152-167 of random_mobkp from generator state s0 (after srand):
\* the vector handed to solve_mobkp and the generator state left behind
random_points(s0, n, m, wf) ==
  LET states == RandStates(s0, n * (m + 1))
      block  == ItemBlock(states, n, m)
      W      == round(TotalWeight(block, n, m), wf)
  IN  [points |-> <<W>> \o block, state |-> states[Len(states)]]

\* the validated requests a process serves
\* values of Parameters::r_script_path: empty (no --r-script), or a script of
\* the caller
ScriptPaths == {"", "./scripts/my_generator.R"}

\* the script named in the command line correlated_mobkp hands to system():
\* the local constant of line 196; correlated(params) passes no script path
\* (lines 257-262), so no field of the request enters
GeneratorScript(p) == "../include/generator.R"

\* the script --r-script asks for: Parameters::r_script_path, the default
\* when it is empty
ScriptOfRequest(p) ==
  IF p.r_script_path = "" THEN "../include/generator.R" ELSE p.r_script_path

GenRequests ==
  {[type |-> Random, n |-> n, m |-> m, seed |-> sd, weight_factor |-> wf,
    correlation |-> 0, r_script_path |-> ""] :
     n \in 1..MaxN, m \in 2..MaxM, sd \in 0..MaxSeed, wf \in 0..CorrDen}
  \cup
  {[type |-> t, n |-> n, m |-> m, seed |-> 1, weight_factor |-> DefaultWeightFactor,
    correlation |-> IF t = NegativeCorrelated THEN -1 ELSE 1, r_script_path |-> rs] :
     t \in {NegativeCorrelated, PositiveCorrelated}, n \in 1..MaxN, m \in 2..MaxM,
     rs \in ScriptPaths}

\* an instance file of an earlier run found at the output path
OldFile ==
  [exists |-> TRUE, lines |-> <<<<1, 2>>, <<9>>, <<9, 8, 7>>, <<1>>, <<8, 7>>>>, junk |-> {}]

PriorTargets == {NoFile, OldFile}

GenOnly == UNCHANGED <<statsVars, mainVars, libVars, pathVars, rangeVars>>

InitGen ==
  /\ gpc = "start"
  /\ req \in GenRequests
  /\ served = 1
  /\ randState = srand(0, 1)
  /\ points = <<>>
  /\ problem = NoProblem
  /\ solutions = <<>>
  /\ target \in PriorTargets
  /\ rows = <<>>
  /\ calls = NoCalls
  /\ produced = {}
  /\ gexit = -1

\* random_mobkp, lines 152-167: the generator is seeded and the instance drawn
RandomData ==
  /\ gpc = "start"
  /\ req.type = Random
  /\ LET r == random_points(srand(randState, req.seed), req.n, req.m, req.weight_factor)
     IN  /\ points' = r.points
         /\ randState' = r.state
         /\ produced' = produced \cup {<<req, r.points>>}
  /\ gpc' = "solve"
  /\ UNCHANGED <<req, served, problem, solutions, target, rows, calls, gexit>>
  /\ GenOnly

\* what the external generator script leaves at file_path for n items and m
\* objectives: "n m", "W", and one line of m + 1 numbers per item
GeneratedLines(n, m) ==
  <<<<n, m>>, <<5>>>> \o [i \in 1..n |-> [k \in 1..(m + 1) |-> 10 * i + k]]

WellFormed(n, m) == [exists |-> TRUE, lines |-> GeneratedLines(n, m), junk |-> {}]

\* the file ends two numbers early
EndsEarly(n, m) ==
  LET l == GeneratedLines(n, m)
  IN  [exists |-> TRUE,
       lines |-> [l EXCEPT ![Len(l)] = SubSeq(l[Len(l)], 1, m - 1)],
       junk |-> {}]

\* the last but one token of the file is not a number
NotANumber(n, m) ==
  [exists |-> TRUE, lines |-> GeneratedLines(n, m), junk |-> {<<n + 2, m>>}]

\* files the generator process may have written when it exits with status 0
GeneratorOutputs(r) ==
  {WellFormed(r.n, r.m), WellFormed(r.n + 1, r.m), WellFormed(r.n - 1, r.m),
   EndsEarly(r.n, r.m), NotANumber(r.n, r.m)}

\* the whitespace-separated tokens of a file, in reading order
RECURSIVE Tokens(_, _)
Tokens(f, li) ==
  IF li > Len(f.lines) THEN <<>>
  ELSE [k \in 1..Len(f.lines[li]) |-> [v |-> f.lines[li][k], num |-> <<li, k>> \notin f.junk]]
         \o Tokens(f, li + 1)

\* values an int64_t that no extraction assigned may hold
Indeterminate == {0, 1}

\* lines 209-225 of correlated_mobkp: fin >> _n >> _m >> W, then _n times _m
\* values and a weight, stored in reading order behind W. No extraction is
\* checked: the first one that meets text that is not a number stores 0, and
\* every extraction after a failure or at the end of the file leaves its
\* variable unassigned. (The files of GeneratorOutputs and PriorTargets all
\* start with three numbers.)
parse_instance(f) ==
  LET toks == Tokens(f, 1)
      n_   == toks[1].v
      m_   == toks[2].v
      W    == toks[3].v
      size == n_ * (m_ + 1)
      bad  == {k \in 1..size : 3 + k > Len(toks) \/ ~toks[3 + k].num}
      fb   == IF bad = {} THEN size + 1 ELSE CHOOSE k \in bad : \A j \in bad : k <= j
  IN  {<<W>> \o [k \in 1..size |->
                   IF k < fb THEN toks[3 + k].v
                   ELSE IF k = fb /\ 3 + k <= Len(toks) THEN 0
                   ELSE g[k]] :
         g \in [fb..size -> Indeterminate]}

\* the file ends before the 3 + n*(m+1) numbers its first line announces were
\* read, or one of them is not a number
Malformed(f) ==
  LET toks == Tokens(f, 1)
  IN  \E k \in 1..(3 + toks[1].v * (toks[2].v + 1)) : k > Len(toks) \/ ~toks[k].num

\* mobkp::problem(n, m, 1, points) as solve_mobkp builds it: capacity, and per
\* item m values followed by the weight
num_items(pb) == pb.n
num_objectives(pb) == pb.m
weight_capacity(pb) == pb.points[1]
item_values(pb, i) == [j \in 1..pb.m |-> pb.points[1 + (i - 1) * (pb.m + 1) + j]]
item_weight(pb, i) == pb.points[1 + i * (pb.m + 1)]

\* the non-dominated sets the solver may return for m objectives, in the
\* iteration order of the unordered container
SolverResults(m) ==
  LET v1 == [j \in 1..m |-> j]
      v2 == [j \in 1..m |-> m + 1 - j]
  IN  {<<v1>>, <<v1, v2>>, <<v2, v1>>}

\* a stream opened for appending
ofstream_app(f) == IF f.exists THEN f ELSE [exists |-> TRUE, lines |-> <<>>, junk |-> {}]

\* std::ofstream(file_path): the file is created or truncated
ofstream(f) == [exists |-> TRUE, lines |-> <<>>, junk |-> {}]

\* lines 94-102 of write_solution: what is printed to the stream
SolutionLines(pb, sols) ==
  <<<<num_items(pb), num_objectives(pb)>>, <<weight_capacity(pb)>>>>
    \o [i \in 1..num_items(pb) |-> <<item_weight(pb, i)>> \o item_values(pb, i)]
    \o <<<<Len(sols)>>>>
    \o sols

\* write_solution on the file f found at file_path
write_solution(f, pb, sols) ==
  [ofstream(f) EXCEPT !.lines = ofstream(f).lines \o SolutionLines(pb, sols)]

\* the row save_stats_to_file is called with
GenStatsRow(r, sols) ==
  [m |-> r.m, n |-> r.n, seed |-> r.seed,
   rho |-> IF r.type = Random THEN 0 ELSE r.correlation,
   n_solutions |-> Len(sols)]

\* a caller that does not look at the status
IgnoreStatus(result) == "open"

\* lines 199-202: if (result != 0) throw std::runtime_error
AfterSystem(result) == IF result # 0 THEN "failed" ELSE "open"

\* lines 194-199: system(command) returns 0; the script wrote the file, or
\* wrote nothing
RunGenerator ==
  /\ gpc = "start"
  /\ req.type # Random
  /\ target' \in GeneratorOutputs(req) \cup {target}
  /\ calls' = [calls EXCEPT !.generator = 0, !.script = GeneratorScript(req)]
  /\ gpc' = AfterSystem(0)
  /\ UNCHANGED <<req, served, randState, points, problem, solutions, rows,
                 produced, gexit>>
  /\ GenOnly

\* lines 199-202: system(command) returns non-zero: runtime_error, caught by
\* main, which returns 1; the script may have left a file behind
GeneratorExitsNonZero ==
  /\ gpc = "start"
  /\ req.type # Random
  /\ target' \in {target, EndsEarly(req.n, req.m)}
  /\ calls' = [calls EXCEPT !.generator = 1, !.script = GeneratorScript(req)]
  /\ gpc' = AfterSystem(1)
  /\ gexit' = IF gpc' = "failed" THEN 1 ELSE gexit
  /\ UNCHANGED <<req, served, randState, points, problem, solutions, rows, produced>>
  /\ GenOnly

\* lines 204-208: the file cannot be opened: message, exit(1)
OpenGeneratedFails ==
  /\ gpc = "open"
  /\ ~target.exists
  /\ gpc' = "failed"
  /\ gexit' = 1
  /\ UNCHANGED <<req, served, randState, points, problem, solutions, target, rows,
                 calls, produced>>
  /\ GenOnly

\* lines 204-225: the file is read into points
ParseInstance ==
  /\ gpc = "open"
  /\ target.exists
  /\ points' \in parse_instance(target)
  /\ calls' = [calls EXCEPT !.parser = IF Malformed(target) THEN "malformed" ELSE "complete"]
  /\ gpc' = "solve"
  /\ UNCHANGED <<req, served, randState, problem, solutions, target, rows, produced,
                 gexit>>
  /\ GenOnly

\* lines 170 and 228: solve_mobkp(timeout, n, m, points) with the n and m of
\* the request
Solve ==
  /\ gpc = "solve"
  /\ Len(points) >= 1 + req.n * (req.m + 1)
  /\ problem' = [n |-> req.n, m |-> req.m, points |-> points]
  /\ solutions' \in SolverResults(req.m)
  /\ calls' = [calls EXCEPT !.solver = calls.solver + 1]
  /\ gpc' = "stats"
  /\ UNCHANGED <<req, served, randState, points, target, rows, produced, gexit>>
  /\ GenOnly

\* line 228 with a vector shorter than 1 + n*(m+1): the problem reads past
\* the end of the vector. The process is killed, or goes on with whatever
\* the memory behind the vector holds.
SolveReadsPastEnd ==
  /\ gpc = "solve"
  /\ Len(points) < 1 + req.n * (req.m + 1)
  /\ calls' = [calls EXCEPT !.solver = calls.solver + 1]
  /\ \/ /\ gpc' = "failed"
        /\ gexit' = 139
        /\ UNCHANGED <<problem, solutions>>
     \/ /\ \E pad \in [1..(1 + req.n * (req.m + 1) - Len(points)) -> Indeterminate] :
             problem' = [n |-> req.n, m |-> req.m, points |-> points \o pad]
        /\ solutions' \in SolverResults(req.m)
        /\ gpc' = "stats"
        /\ UNCHANGED gexit
  /\ UNCHANGED <<req, served, randState, points, target, rows, produced>>
  /\ GenOnly

\* lines 176 and 234: save_stats_to_file
SaveStatsRow ==
  /\ gpc = "stats"
  /\ rows' = Append(rows, GenStatsRow(req, solutions))
  /\ gpc' = "write"
  /\ UNCHANGED <<req, served, randState, points, problem, solutions, target, calls,
                 produced, gexit>>
  /\ GenOnly

\* lines 177 and 235: write_solution
WriteSolutionFile ==
  /\ gpc = "write"
  /\ target' = write_solution(target, problem, solutions)
  /\ gpc' = "done"
  /\ UNCHANGED <<req, served, randState, points, problem, solutions, rows, calls,
                 produced, gexit>>
  /\ GenOnly

\* the next request of the batch: type, m and weight factor are those of the
\* run, and the output path is another one, here one without a file
NextRequest ==
  /\ gpc = "done"
  /\ served < MaxRequests
  /\ req' \in {r \in GenRequests : /\ r.type = req.type
                                  /\ r.m = req.m
                                  /\ r.weight_factor = req.weight_factor
                                  /\ r.r_script_path = req.r_script_path}
  /\ served' = served + 1
  /\ points' = <<>>
  /\ problem' = NoProblem
  /\ solutions' = <<>>
  /\ target' = NoFile
  /\ calls' = NoCalls
  /\ gpc' = "start"
  /\ UNCHANGED <<randState, rows, produced, gexit>>
  /\ GenOnly

\* main returns 0
Return ==
  /\ gpc = "done"
  /\ gpc' = "returned"
  /\ gexit' = 0
  /\ UNCHANGED <<req, served, randState, points, problem, solutions, target, rows,
                 calls, produced>>
  /\ GenOnly

InitG == InitGen /\ StatsIdle /\ MainIdle /\ LibIdle /\ OthersIdle

NextGen ==
  \/ RandomData
  \/ RunGenerator
  \/ GeneratorExitsNonZero
  \/ OpenGeneratedFails
  \/ ParseInstance
  \/ Solve
  \/ SolveReadsPastEnd
  \/ SaveStatsRow
  \/ WriteSolutionFile
  \/ NextRequest
  \/ Return

SpecGen == InitG /\ [][NextGen]_vars

\* the random instance of the request at hand has just been drawn
RandomDrawn == req.type = Random /\ gpc = "solve"

\* C12: the data random_mobkp produces is a function of (n, m, seed, MAX,
\* weight factor): two requests of one process with the same values got the
\* same vector, whatever was generated between them, and every vector is the
\* one drawn from a generator freshly seeded with the request's seed.
C12_Deterministic ==
  /\ \A a, b \in produced : a[1] = b[1] => a[2] = b[2]
  /\ \A a \in produced :
       a[2] = random_points(a[1].seed % RandMod, a[1].n, a[1].m, a[1].weight_factor).points

\* the second request of a process repeated the values of the first, after
\* the generator had been advanced by the first, and got the same vector
C12_Witness ==
  /\ RandomDrawn
  /\ served = 2
  /\ Cardinality(produced) = 1
  /\ randState # srand(0, 1)

\* the sum of the n weights in a vector laid out for n items and m objectives
WeightsIn(pts, n, m) == SumSeq([i \in 1..n |-> pts[1 + i * (m + 1)]])

\* C14: the first element W of a random instance is the integer nearest to
\* weightFactor x (sum of the n weights), halves rounded up, so 0 <= W <= sum;
\* weights 10, 20, 30 with weight factor 1/2 give 30.
C14_Capacity ==
  /\ RandomDrawn =>
       LET W  == points[1]
           tw == WeightsIn(points, req.n, req.m)
       IN  /\ 0 <= W /\ W <= tw
           /\ 2 * tw * req.weight_factor - CorrDen < 2 * W * CorrDen
           /\ 2 * W * CorrDen <= 2 * tw * req.weight_factor + CorrDen
  /\ CorrDen % 2 = 0 => round(10 + 20 + 30, CorrDen \div 2) = 30

\* a capacity that was rounded up from a fractional product
C14_Witness ==
  /\ RandomDrawn
  /\ req.weight_factor \notin {0, CorrDen}
  /\ points[1] * CorrDen > WeightsIn(points, req.n, req.m) * req.weight_factor

\* C13: whenever solve_mobkp has been called with a vector and (n, m), the
\* vector has length 1 + n*(m+1) for that n and m, on the random and on the
\* correlated path, also when the generated file announced another n or m.
C13_VectorLength ==
  calls.solver > 0 => Len(points) = 1 + req.n * (req.m + 1)

\* the instance and the solution set of the request have been written
Written == gpc \in {"done", "returned"}

\* the problem the instance parser reconstructs from a file, per outcome of
\* its reads
ReadBack(f) ==
  {[n |-> Tokens(f, 1)[1].v, m |-> Tokens(f, 1)[2].v, points |-> p] : p \in parse_instance(f)}

\* C15: parsing the file write_solution wrote gives back the n, m and W of the
\* problem and, for every item, its weight and its m objective values.
C15_RoundTrip ==
  Written =>
    \A back \in ReadBack(target) :
      /\ num_items(back) = num_items(problem)
      /\ num_objectives(back) = num_objectives(problem)
      /\ weight_capacity(back) = weight_capacity(problem)
      /\ \A i \in 1..num_items(problem) :
           /\ item_weight(back, i) = item_weight(problem, i)
           /\ item_values(back, i) = item_values(problem, i)

\* C16: after write_solution the file holds exactly: "n m", "W", n item lines
\* with the weight followed by the m values, "nd" with nd the size of the
\* solution set, and nd lines with one m-value vector of the set each;
\* nothing of what the file held before is left.
C16_FileGrammar ==
  Written =>
    LET L  == target.lines
        n  == num_items(problem)
        m  == num_objectives(problem)
        vs == {solutions[k] : k \in 1..Len(solutions)}
        nd == Cardinality(vs)
    IN  /\ target.exists /\ target.junk = {}
        /\ Len(L) = 2 + n + 1 + nd
        /\ L[1] = <<n, m>>
        /\ L[2] = <<weight_capacity(problem)>>
        /\ \A i \in 1..n :
             /\ Len(L[2 + i]) = m + 1
             /\ L[2 + i][1] = item_weight(problem, i)
             /\ \A j \in 1..m : L[2 + i][1 + j] = item_values(problem, i)[j]
        /\ L[n + 3] = <<nd>>
        /\ {L[n + 3 + k] : k \in 1..nd} = vs
        /\ \A k \in 1..nd : Len(L[n + 3 + k]) = m

\* a correlated request wrote two solutions over the file the generator left
\* at the same path
C16_Witness ==
  /\ Written
  /\ req.type # Random
  /\ calls.generator = 0 /\ calls.parser = "complete"
  /\ Len(solutions) = 2

\* C17: when the generator exited with a non-zero status the file is not
\* parsed, the solver not invoked, no stats row appended, the file at the
\* output path is what was there before or what the generator left (no
\* solution section is written), and the run has ended with exit code 1.
C17_GeneratorFailureFatal ==
  calls.generator > 0 =>
    /\ gpc = "failed" /\ gexit = 1
    /\ calls.parser = "none" /\ points = <<>>
    /\ calls.solver = 0 /\ solutions = <<>>
    /\ Len(rows) = served - 1
    /\ target \in PriorTargets \cup {EndsEarly(req.n, req.m)}

\* the generator failed at the second request of the process and left a
\* partial file
C17_Witness ==
  /\ calls.generator > 0
  /\ served = 2 /\ Len(rows) = 1
  /\ target = EndsEarly(req.n, req.m)
  /\ gexit = 1

\* C18: when the generated file cannot be parsed (it ends early, or holds a
\* token that is not a number), the solver is never invoked, and no stats row
\* and no instance file are produced for the request.
C18_MalformedFileFatal ==
  calls.parser = "malformed" =>
    /\ calls.solver = 0
    /\ Len(rows) = served - 1
    /\ gpc \notin {"stats", "write", "done", "returned"}


\* C25: in the data of a random instance every weight and every value is an
\* integer in [1, MAX-1]: every element of the vector behind W, of the request
\* at hand and of every instance generated before.
C25_DrawnInRange ==
  /\ RandomDrawn => \A idx \in 2..Len(points) : points[idx] \in 1..(MAX - 1)
  /\ \A a \in produced : \A idx \in 2..Len(a[2]) : a[2][idx] \in 1..(MAX - 1)

\* an instance was drawn in which both ends of the interval occur
C25_Witness ==
  /\ RandomDrawn
  /\ \E idx \in 2..Len(points) : points[idx] = 1
  /\ \E idx \in 2..Len(points) : points[idx] = MAX - 1

\* C23: for a correlated request the generator invoked is the script given by
\* --r-script (Parameters::r_script_path); the default ../include/generator.R
\* is used only when that path is empty.
C23_ScriptOfRequest ==
  calls.generator >= 0 => calls.script = ScriptOfRequest(req)

\* where the claim holds: requests without --r-script run the default script
C23_DefaultScript ==
  (calls.generator >= 0 /\ req.r_script_path = "")
    => calls.script = "../include/generator.R"

---------------------------------------------------------------------------
(* main(): seed 0, a missing item count, completed requests, files left    *)

\* a Random run whose other options are in order
RandomRunInOrder ==
  /\ args.type = Random
  /\ args.m > 1
  /\ \/ args.n_given /\ args.n > 0
     \/ args.n_range # <<>> /\ args.n_range[1] > 0

\* --seed=0, or a --seed-range that starts at 0
SeedZeroGiven ==
  IF args.seed_range = <<>> THEN args.seed = 0 ELSE args.seed_range[1] = 0

\* the instance of seed 0 was generated and written
SeedZeroGenerated ==
  \E j \in 1..Len(issued) :
    /\ issued[j][3] = 0
    /\ FilePath(IssuedRequest(j)) \in DOMAIN files
    /\ files[FilePath(IssuedRequest(j))] = "complete"

\* C26: seed = 0 is a valid seed: a run with --seed=0 (single mode) or with a
\* --seed-range starting at 0 (batch mode) is accepted and, when nothing
\* else fails, generates the instance of seed 0; only a negative seed is
\* rejected.
C26_SeedZeroAccepted ==
  (RandomRunInOrder /\ SeedZeroGiven /\ RunEnded /\ faults = <<>>)
    => (exitCode = 0 /\ SeedZeroGenerated)

\* where the claim holds: a --seed-range starting at 0
C26_SeedRangeFromZero ==
  (RandomRunInOrder /\ args.seed_range # <<>> /\ SeedZeroGiven /\ RunEnded
     /\ faults = <<>>)
    => (exitCode = 0 /\ SeedZeroGenerated)

\* neither --n nor --n-range on the command line
NoItemCount == ~args.n_given /\ args.n_range = <<>>

\* C27: when neither --n nor --n-range is given, the run fails with "Either
\* --n or --n-range must be specified" and generates nothing, in single mode
\* and in a batch entered by --seed-range or --correlation-list alone (stated
\* for Random runs whose other options are in order).
C27_ItemCountRequired ==
  (NoItemCount /\ CliAccepts(args) /\ args.type = Random /\ args.m > 1 /\ RunEnded)
    => (error = "n_required" /\ exitCode = 1 /\ NoOutput)

\* where the claim holds: single mode, when the unassigned n happens to be 0
C27_SingleModeZero ==
  (NoItemCount /\ CliAccepts(args) /\ ~batch_mode(args) /\ args.n = 0 /\ RunEnded)
    => (error = "n_required" /\ exitCode = 1 /\ NoOutput)

\* the run reported its requests as completed: "Batch processing complete",
\* or the return 0 of single mode
ReportedCompleted == RunEnded /\ exitCode = 0

\* rows of the stats file that carry the values of request j
RowsOf(j) == {r \in 1..Len(stats) : stats[r] = StatsRow(IssuedRequest(j))}

\* requests of the run with the values of request j
SameRequests(j) == {i \in 1..Len(issued) : issued[i] = issued[j]}

\* C29: every request reported as completed has exactly one stats row and
\* exactly one instance file, and they agree: the row carries the request's
\* m, n, seed, correlation (0 for Random) and the solution count, the file at
\* the request's path is the complete instance with its solution section.
C29_CompletedHaveRowAndFile ==
  ReportedCompleted =>
    \A j \in 1..Len(issued) :
      /\ Cardinality(RowsOf(j)) = Cardinality(SameRequests(j))
      /\ FilePath(IssuedRequest(j)) \in DOMAIN files
      /\ files[FilePath(IssuedRequest(j))] = "complete"

\* where the claim holds: runs that met no fault of the environment
C29_WithoutFaults ==
  (ReportedCompleted /\ faults = <<>>) =>
    \A j \in 1..Len(issued) :
      /\ Cardinality(RowsOf(j)) = Cardinality(SameRequests(j))
      /\ FilePath(IssuedRequest(j)) \in DOMAIN files
      /\ files[FilePath(IssuedRequest(j))] = "complete"

\* C30: after a request has ended, with success or with any failure, the
\* file at its output path either does not exist or holds the complete
\* instance with its solution section; a correlated request that fails after
\* the generator ran does not leave the generator's file behind.
C30_NoPartialFile ==
  RunEnded => \A path \in DOMAIN files : files[path] = "complete"

\* where the claim holds: Random runs, whose file is written in one piece
C30_RandomRuns ==
  (RunEnded /\ args.type = Random) => \A path \in DOMAIN files : files[path] = "complete"

---------------------------------------------------------------------------
(* SpecPaths: the output paths of two requests of one batch run (no      *)
(* --folder, no --outfile). The correlations of this specification lie on *)
(* a grid of five decimals, k/FineDen, one decimal finer than "{:.4f}".   *)

FineDen == 10 * 10000

\* the correlations of a --correlation-list around 0.1: 0.10000, 0.10001, ...,
\* and 0.25; negative for NegativeCorrelated, one 0.0 for Random
FineCorrelations(type) ==
  LET mags == {FineDen \div 10 + d : d \in 0..MaxFine} \cup {FineDen \div 4}
  IN  IF type = Random THEN {0}
      ELSE IF type = NegativeCorrelated THEN {-a : a \in mags}
      ELSE mags

\* validate_correlation of main and the correlation rule of
\* Parameters::validate, for m > 1, on k/FineDen: TRUE when neither throws
FineAccepted(type, m, c) ==
  IF type = NegativeCorrelated
  THEN ~(c >= 0 \/ c * (m - 1) < -FineDen)
  ELSE IF type = PositiveCorrelated
  THEN ~(c <= 0 \/ c * (m - 1) > FineDen) /\ ~(c <= 0 \/ c > FineDen)
  ELSE TRUE

\* requests a batch run builds: type and m of the run, n, seed and correlation
\* from the three axes
BatchRequests(type, m) ==
  {[type |-> type, m |-> m, n |-> n, seed |-> sd, correlation |-> c] :
   n \in 1..MaxN, sd \in 0..MaxSeed,
   c \in {x \in FineCorrelations(type) : FineAccepted(type, m, x)}}

\* folder_path + outfile of the Parameters object main builds for a request
\* of a batch run (lines 175-176: folder and outfile are empty)
BatchPath(r) ==
  <<DefaultFolder(r.type, r.m),
    DefaultOutfile(r.type, r.n, r.seed, FormatFixed4(r.correlation, FineDen))>>

PathsOnly == UNCHANGED <<statsVars, mainVars, libVars, genVars, rangeVars>>

\* two distinct requests of one run
InitPaths ==
  /\ \E type \in {Random, NegativeCorrelated, PositiveCorrelated}, m \in 2..MaxM :
       batch \in {b \in BatchRequests(type, m) \X BatchRequests(type, m) : b[1] # b[2]}
  /\ paths = <<>>

\* the constructor of Parameters runs for the next request of the run
ConstructRequest ==
  /\ Len(paths) < Len(batch)
  /\ paths' = Append(paths, BatchPath(batch[Len(paths) + 1]))
  /\ UNCHANGED batch
  /\ PathsOnly

InitP == InitPaths /\ StatsIdle /\ MainIdle /\ LibIdle /\ GenIdle /\ RangeIdle

NextPaths == ConstructRequest

SpecPaths == InitP /\ [][NextPaths]_vars

\* C22: within one batch run two distinct requests (they differ in n, in the
\* seed or in the correlation value) never get the same instance file path.
C22_DistinctPaths ==
  Len(paths) = 2 => paths[1] # paths[2]

\* where the claim holds: requests that differ in n or in the seed
C22_DistinctNSeed ==
  (Len(paths) = 2 /\ <<batch[1].n, batch[1].seed>> # <<batch[2].n, batch[2].seed>>)
    => paths[1] # paths[2]


---------------------------------------------------------------------------
(* SpecRange: one call of parse_range, its loop one statement at a time.  *)
(* The range string is given by its parts: the text before the first '-'   *)
(* (start: it holds no '-', so it is not negative), the text between '-'   *)
(* and ':' (end), the text after ':' (step).                               *)

IntMin == -IntMax - 1

Int32 == IntMin..IntMax

\* two's complement wrap-around of an out-of-range sum
Wrap(x) == ((x - IntMin) % (2 * IntMax + 2)) + IntMin

\* entries of the vector the model records; every list a loop without
\* overflow builds is shorter
MaxVector == 2 * IntMax + 3

\* values.push_back(x), the first MaxVector entries recorded
push_back(vec, x) == IF Len(vec) < MaxVector THEN Append(vec, x) ELSE vec

\* "7" | "2-5" | "2-5:3" | a string std::stoi rejects. Parts a form does not
\* have are filled with start and 1.
RangeStrings ==
  {[form |-> "single", start |-> a, end |-> a, step |-> 1] : a \in 0..IntMax}
  \cup {[form |-> "range", start |-> a, end |-> b, step |-> 1] :
          a \in 0..IntMax, b \in -1..IntMax}
  \cup {[form |-> "range_step", start |-> a, end |-> b, step |-> c] :
          a \in 0..IntMax, b \in -1..IntMax, c \in (-MaxStep)..MaxStep}
  \cup {[form |-> "malformed", start |-> 0, end |-> 0, step |-> 1]}

RangeOnly == UNCHANGED <<statsVars, mainVars, libVars, genVars, pathVars>>

InitRange ==
  /\ rpc = "start"
  /\ range_str \in RangeStrings
  /\ loop_v = 0
  /\ parsed = <<>>

\* lines 22-27: no '-' in the string: the single value
RangeSingleValue ==
  /\ rpc = "start"
  /\ range_str.form = "single"
  /\ parsed' = push_back(parsed, range_str.start)
  /\ rpc' = "returned"
  /\ UNCHANGED <<range_str, loop_v>>
  /\ RangeOnly

\* std::stoi throws on a part that is not a number; main catches and returns 1
RangeStoiThrows ==
  /\ rpc = "start"
  /\ range_str.form = "malformed"
  /\ rpc' = "thrown"
  /\ UNCHANGED <<range_str, loop_v, parsed>>
  /\ RangeOnly

\* lines 29-42: start, end and step are read (step = 1 without ':'), v = start
RangeEnterLoop ==
  /\ rpc = "start"
  /\ range_str.form \in {"range", "range_step"}
  /\ loop_v' = range_str.start
  /\ rpc' = "test"
  /\ UNCHANGED <<range_str, parsed>>
  /\ RangeOnly

\* lines 42-43: v <= end holds: values.push_back(v)
RangeLoopBody ==
  /\ rpc = "test"
  /\ loop_v <= range_str.end
  /\ parsed' = push_back(parsed, loop_v)
  /\ rpc' = "increment"
  /\ UNCHANGED <<range_str, loop_v>>
  /\ RangeOnly

\* line 42: v += step, and back to the test
RangeIncrement ==
  /\ rpc = "increment"
  /\ loop_v + range_str.step \in Int32
  /\ loop_v' = loop_v + range_str.step
  /\ rpc' = "test"
  /\ UNCHANGED <<range_str, parsed>>
  /\ RangeOnly

\* line 42: v += step leaves int32_t: signed overflow, undefined behaviour.
\* The build wraps around and goes on, or does anything else.
RangeOverflow ==
  /\ rpc = "increment"
  /\ loop_v + range_str.step \notin Int32
  /\ \/ loop_v' = Wrap(loop_v + range_str.step) /\ rpc' = "test"
     \/ loop_v' = loop_v /\ rpc' = "undefined"
  /\ UNCHANGED <<range_str, parsed>>
  /\ RangeOnly

\* lines 42, 46: v <= end fails: return values
RangeReturn ==
  /\ rpc = "test"
  /\ loop_v > range_str.end
  /\ rpc' = "returned"
  /\ UNCHANGED <<range_str, loop_v, parsed>>
  /\ RangeOnly

InitR == InitRange /\ StatsIdle /\ MainIdle /\ LibIdle /\ GenIdle /\ PathIdle

NextRange ==
  \/ RangeSingleValue
  \/ RangeStoiThrows
  \/ RangeEnterLoop
  \/ RangeLoopBody
  \/ RangeIncrement
  \/ RangeOverflow
  \/ RangeReturn

\* the call runs on: a step that is possible is taken
SpecRange == InitR /\ [][NextRange]_vars /\ WF_vars(NextRange)

\* start, start + step, ..., the values not above end
ExpectedValues(r) ==
  LET k == IF r.start > r.end THEN 0 ELSE (r.end - r.start) \div r.step + 1
  IN  [i \in 1..k |-> r.start + (i - 1) * r.step]

IsPrefix(a, b) == Len(a) <= Len(b) /\ a = SubSeq(b, 1, Len(a))

StepAtLeastOne == range_str.form \in {"range", "range_step"} /\ range_str.step >= 1

\* C24: parse_range returns, for "start-end:step" with step >= 1, exactly
\* start, start + step, ... not above end, in increasing order ("start-end":
\* step 1; the empty list when start > end), and for a string without '-'
\* the single value: the vector never holds anything else, and what is
\* returned is the whole list.
C24_ExactValues ==
  /\ StepAtLeastOne =>
       /\ rpc # "undefined"
       /\ IsPrefix(parsed, ExpectedValues(range_str))
       /\ rpc = "returned" => parsed = ExpectedValues(range_str)
  /\ (range_str.form = "single" /\ rpc = "returned") => parsed = <<range_str.start>>

\* where the claim holds: ranges whose end leaves room for one more step
C24_ExactBelowIntMax ==
  (StepAtLeastOne /\ range_str.end + range_str.step <= IntMax) =>
       /\ rpc # "undefined"
       /\ IsPrefix(parsed, ExpectedValues(range_str))
       /\ rpc = "returned" => parsed = ExpectedValues(range_str)

\* C28: parse_range terminates for every range string it accepts; in
\* particular a call with a step of 0 and start <= end comes to its end: it
\* returns its list (or has thrown).
C28_Terminates ==
  (/\ range_str.form = "range_step"
   /\ range_str.step = 0
   /\ range_str.start <= range_str.end)
    ~> (rpc \in {"returned", "thrown"})

\* the same for a negative step and start <= end
C28_TerminatesNegativeStep ==
  (/\ range_str.form = "range_step"
   /\ range_str.step < 0
   /\ range_str.start <= range_str.end)
    ~> (rpc \in {"returned", "thrown"})

\* where the claim holds: a step of at least one and an end that leaves room
\* for it
C28_TerminatesStepAtLeastOne ==
  (StepAtLeastOne /\ range_str.end + range_str.step <= IntMax)
    ~> (rpc = "returned")

=============================================================================
